---- MODULE Spec2Model ----
(***************************************************************************)
(* Model of src/src/pages/AddressManagement.tsx: the CSV validation        *)
(* (parseCSV), the hierarchy extraction and the ordered, batched load      *)
(* (uploadData) of the AddressManagement page, together with the user      *)
(* events that drive them (file selection, clear button, upload button).   *)
(*                                                                         *)
(* JavaScript runs each handler to its next `await` without interleaving,  *)
(* so one action is one handler, or one continuation of uploadData from    *)
(* the return of a store call to the issue of the next one.                *)
(***************************************************************************)
EXTENDS Integers, Sequences, FiniteSets, TLC

VARIABLES
    file,          \* useState file (line 20): NoFile or the selected file
    parseResults,  \* useState parseResults (line 21): [rows, errors]
    uploadStatus,  \* useState uploadStatus (line 25)
    validation,    \* useState validation (line 26): [valid, errors, stats]
    parsing,       \* files handed to Papa.parse whose callback has not run yet
    loads,         \* the invocations of uploadData that passed the entry check
    store,         \* the four tables behind the supabase client
    failures       \* number of store calls that have returned an error

vars == <<file, parseResults, uploadStatus, validation, parsing, loads, store, failures>>

-----------------------------------------------------------------------------
(* Bounds of the model. *)

\* longest row sequence of the exhaustively enumerated files
MaxRows == 3
\* longest row sequence of the additional fixed-pattern files (several batches)
MaxLongRows == 5
\* invocations of uploadData that may pass the entry check in one behaviour
MaxLoads == 2
\* store calls that may return an error in one behaviour
MaxFailures == 1
\* Papa.parse calls whose callback may be pending at the same time
MaxParsing == 1

\* const BATCH_SIZE = 1000 (line 232), scaled down to 2 so that loads of
\* several batches, with a short last batch, occur within MaxLongRows rows.
BATCH_SIZE == 2

-----------------------------------------------------------------------------
(* JavaScript values. *)

\* the value of a missing property: row[col] of a line with too few fields
Undefined == "<undefined>"
NoError == "<null>"

\* !value for a string-or-undefined value (line 115)
Falsy(v) == v = "" \/ v = Undefined

Min(a, b) == IF a < b THEN a ELSE b

\* Array.prototype.slice(from, to) with 0-based, end-exclusive indices
Slice(s, from, to) == SubSeq(s, from + 1, Min(to, Len(s)))

\* Array.prototype.includes
Includes(s, x) == \E j \in 1..Len(s) : s[j] = x

\* Array.prototype.join(', ')
RECURSIVE Join(_)
Join(s) ==
    IF Len(s) = 0 THEN ""
    ELSE IF Len(s) = 1 THEN s[1]
    ELSE s[1] \o ", " \o Join(Tail(s))

\* MapSet that leaves the value of an existing key alone
MapSetKeepFirst(m, k, v) ==
    IF \E j \in 1..Len(m) : m[j][1] = k THEN m ELSE Append(m, <<k, v>>)

\* Map.prototype.set on an insertion-ordered list of <<key, value>> pairs:
\* an existing key keeps its position and takes the new value
MapSet(m, k, v) ==
    IF \E j \in 1..Len(m) : m[j][1] = k
    THEN [j \in 1..Len(m) |-> IF m[j][1] = k THEN <<k, v>> ELSE m[j]]
    ELSE Append(m, <<k, v>>)

\* new Map(entries): the entries are set one after the other
RECURSIVE NewMapFrom(_, _)
NewMapFrom(m, entries) ==
    IF Len(entries) = 0 THEN m
    ELSE NewMapFrom(MapSet(m, entries[1][1], entries[1][2]), Tail(entries))

NewMap(entries) == NewMapFrom(<<>>, entries)

\* Array.from(map).map(([_, value]) => value)
MapValues(m) == [j \in 1..Len(m) |-> m[j][2]]

\* new Set(data.map(row => row[col])).size
UniqueCount(data, col) == Cardinality({data[j][col] : j \in 1..Len(data)})

-----------------------------------------------------------------------------
(* The input files. *)

\* const requiredColumns (lines 90-93)
requiredColumns ==
    <<"regionCode", "regionName", "provinceCode", "provinceName",
      "lguCode", "lguName", "barangayCode", "barangayName">>

\* type AddressRow (lines 7-16)
Row(rc, rn, pc, pn, lc, ln, bc, bn) ==
    [regionCode |-> rc, regionName |-> rn, provinceCode |-> pc, provinceName |-> pn,
     lguCode |-> lc, lguName |-> ln, barangayCode |-> bc, barangayName |-> bn]

RowA == Row("R1", "Region A", "P1", "Province A", "L1", "Lgu A", "B1", "Brgy A")
\* the codes of RowA under other names
RowB == Row("R1", "Region B", "P1", "Province B", "L1", "Lgu B", "B1", "Brgy B")
\* province P1 under another region, a new barangay
RowC == Row("R2", "Region C", "P1", "Province A", "L1", "Lgu A", "B2", "Brgy C")
\* lgu L1 under another province, the barangay code of RowA
RowD == Row("R1", "Region A", "P2", "Province D", "L1", "Lgu D", "B1", "Brgy D")
\* nothing in common with RowA
RowE == Row("R2", "Region E", "P2", "Province E", "L2", "Lgu E", "B3", "Brgy E")
\* two empty values in one line
RowF == Row("R1", "", "P1", "Province A", "", "Lgu A", "B1", "Brgy A")
\* a line with too few fields: the last two properties are missing
RowG == Row("R2", "Region E", "P2", "Province E", "L2", "Lgu E", Undefined, Undefined)
\* a line of separators only
RowH == Row("", "", "", "", "", "", "", "")

ValidRows == {RowA, RowB, RowC, RowD, RowE}
Rows == ValidRows \cup {RowF, RowG, RowH}

SeqsUpTo(S, n) == UNION {[1..k -> S] : k \in 0..n}

\* a file as Papa.parse sees it: its name, and either the failure its reader
\* reports or the results {data, errors, meta} of parsing it; meta.fields is
\* an array or (hasFields = FALSE) undefined
File(name, hasFields, fields, data, errors, failure) ==
    [name |-> name, meta |-> [hasFields |-> hasFields, fields |-> fields],
     data |-> data, errors |-> errors, failure |-> failure]

\* useState<File | null>(null)
NoFile == File("<null>", FALSE, <<>>, <<>>, <<>>, NoError)

\* the rows of a file whose header is `fields`: a column that is not in the
\* header is a missing property of every row
Project(row, fields) ==
    [col \in DOMAIN row |-> IF Includes(fields, col) THEN row[col] ELSE Undefined]

CsvFile(fields, data) ==
    File("address.csv", TRUE, fields, [j \in 1..Len(data) |-> Project(data[j], fields)],
         IF \E j \in 1..Len(data) : \E col \in DOMAIN data[j] : data[j][col] = Undefined
         THEN <<"TooFewFields">> ELSE <<>>,
         NoError)

\* the headers that lack a non-empty set of required columns
SubHeader(S) == SelectSeq(requiredColumns, LAMBDA col : col \in S)
Required == {requiredColumns[j] : j \in 1..Len(requiredColumns)}
PartialHeaders == {SubHeader(S) : S \in (SUBSET Required) \ {Required}}

\* a complete header in another order, with a column the page does not use
ShuffledHeader ==
    <<"remarks", "barangayName", "barangayCode", "lguName", "lguCode",
      "provinceName", "provinceCode", "regionName", "regionCode">>

\* rows 1..n of the repeating pattern A, C, E, B, D
Pattern == <<RowA, RowC, RowE, RowB, RowD>>
LongData(n) == [j \in 1..n |-> Pattern[((j - 1) % Len(Pattern)) + 1]]

UnreadableFile == File("address.csv", FALSE, <<>>, <<>>, <<>>, "read failed")
EmptyFile == File("address.csv", FALSE, <<>>, <<>>, <<>>, NoError)
TextFile == File("notes.txt", TRUE, requiredColumns, <<RowA>>, <<>>, NoError)

\* every file of the model
Files ==
    {CsvFile(requiredColumns, data) : data \in SeqsUpTo(Rows, MaxRows)}
    \cup {CsvFile(requiredColumns, LongData(n)) : n \in (MaxRows + 1)..MaxLongRows}
    \cup {CsvFile(h, <<RowA, RowF>>) : h \in PartialHeaders}
    \cup {CsvFile(ShuffledHeader, <<RowA, RowB>>), CsvFile(ShuffledHeader, <<RowH>>)}
    \cup {UnreadableFile, EmptyFile}

\* the files the user picks while the page is in use
UiFiles ==
    {CsvFile(requiredColumns, <<RowA, RowC, RowB>>),
     CsvFile(requiredColumns, <<RowA, RowF>>),
     CsvFile(requiredColumns, <<>>),
     CsvFile(SubHeader(Required \ {"lguCode"}), <<RowA>>),
     UnreadableFile, TextFile}

\* file.name.endsWith('.csv') (line 70)
EndsWithCsv(name) == name = "address.csv"

-----------------------------------------------------------------------------
(* parseCSV: the `complete` callback (lines 86-142). *)

\* meta.fields || [] (line 95)
parsedColumns(meta) == IF meta.hasFields THEN meta.fields ELSE <<>>

\* missingColumns that stops at the first missing column
missingColumnsFirst(meta) ==
    SubSeq(SelectSeq(requiredColumns, LAMBDA col : ~Includes(parsedColumns(meta), col)),
           1, 1)

\* requiredColumns.filter(col => !parsedColumns.includes(col)) (line 96)
missingColumns(meta) ==
    SelectSeq(requiredColumns, LAMBDA col : ~Includes(parsedColumns(meta), col))

\* the error of line 102
MissingColumnsError(missing) == "Missing required columns: " \o Join(missing)

\* the error of line 116
MissingValueError(rowNumber, col) ==
    "Row " \o ToString(rowNumber) \o ": Missing value for " \o col

\* RowErrors that leaves the row at its first missing value
RECURSIVE RowErrorsFirst(_, _, _)
RowErrorsFirst(row, rowNumber, cols) ==
    IF Len(cols) = 0 THEN <<>>
    ELSE IF Falsy(row[cols[1]]) THEN <<MissingValueError(rowNumber, cols[1])>>
    ELSE RowErrorsFirst(row, rowNumber, Tail(cols))

\* requiredColumns.forEach(col => ...) for one row (lines 114-118)
RECURSIVE RowErrors(_, _, _)
RowErrors(row, rowNumber, cols) ==
    IF Len(cols) = 0 THEN <<>>
    ELSE (IF Falsy(row[cols[1]])
          THEN <<MissingValueError(rowNumber, cols[1])>>
          ELSE <<>>)
         \o RowErrors(row, rowNumber, Tail(cols))

\* data.forEach((row, index) => ...) from row `index` on (lines 110-119)
RECURSIVE validationErrorsFrom(_, _)
validationErrorsFrom(data, index) ==
    IF index >= Len(data) THEN <<>>
    ELSE RowErrors(data[index + 1], index + 2, requiredColumns)
         \o validationErrorsFrom(data, index + 1)

validationErrors(data) == validationErrorsFrom(data, 0)

\* stats with the barangays counted by row
statsRowCount(data) ==
    [regions   |-> UniqueCount(data, "regionCode"),
     provinces |-> UniqueCount(data, "provinceCode"),
     lgus      |-> UniqueCount(data, "lguCode"),
     barangays |-> Len(data)]

\* const stats (lines 121-132)
stats(data) ==
    [regions   |-> UniqueCount(data, "regionCode"),
     provinces |-> UniqueCount(data, "provinceCode"),
     lgus      |-> UniqueCount(data, "lguCode"),
     barangays |-> UniqueCount(data, "barangayCode")]

ZeroStats == [regions |-> 0, provinces |-> 0, lgus |-> 0, barangays |-> 0]

\* the initial value of validation (lines 35-44), set again by the clear button
NoValidation == [valid |-> FALSE, errors |-> <<>>, stats |-> ZeroStats]
NoResults == [rows |-> <<>>, errors |-> <<>>]

\* Papa.parse calls `complete` for f (lines 86-142)
ParseComplete(f) ==
    /\ f \in parsing
    /\ f.failure = NoError
    /\ parsing' = parsing \ {f}
    /\ IF Len(missingColumns(f.meta)) > 0
       THEN /\ uploadStatus' = "error"
            /\ validation' = [valid  |-> FALSE,
                              errors |-> <<MissingColumnsError(missingColumns(f.meta))>>,
                              stats  |-> ZeroStats]
            /\ UNCHANGED parseResults
       ELSE /\ parseResults' = [rows |-> f.data, errors |-> f.errors]
            /\ validation' = [valid  |-> Len(validationErrors(f.data)) = 0,
                              errors |-> validationErrors(f.data),
                              stats  |-> stats(f.data)]
            /\ uploadStatus' = IF Len(validationErrors(f.data)) = 0 THEN "idle" ELSE "error"
    /\ UNCHANGED <<file, loads, store, failures>>

\* Papa.parse calls `error` for f (lines 143-146); the toast is not modelled
ParseError(f) ==
    /\ f \in parsing
    /\ f.failure # NoError
    /\ parsing' = parsing \ {f}
    /\ uploadStatus' = "error"
    /\ UNCHANGED <<file, parseResults, validation, loads, store, failures>>

\* handleFile, reached from onDrop and handleFileInputChange, then parseCSV up
\* to the call of Papa.parse (lines 58-82, 154-159); a file of another type
\* only raises a toast, which is not modelled
handleFile(f) ==
    /\ Cardinality(parsing \cup {f}) <= MaxParsing
    /\ IF ~EndsWithCsv(f.name)
       THEN UNCHANGED <<file, uploadStatus, parsing>>
       ELSE /\ file' = f
            /\ uploadStatus' = "validating"
            /\ parsing' = parsing \cup {f}
    /\ UNCHANGED <<parseResults, validation, loads, store, failures>>

\* the onClick of the clear button, rendered while a file is selected (lines 295-301)
ClearFile ==
    /\ file # NoFile
    /\ file' = NoFile
    /\ parseResults' = NoResults
    /\ validation' = NoValidation
    /\ uploadStatus' = "idle"
    /\ UNCHANGED <<parsing, loads, store, failures>>

-----------------------------------------------------------------------------
(* uploadData: the extraction (lines 171-203). *)

\* regions with one record per row
regionsPerRow(rows) ==
    [j \in 1..Len(rows) |->
        [code |-> rows[j].regionCode, name |-> rows[j].regionName]]

\* const regions (lines 172-174)
regions(rows) ==
    MapValues(NewMap([j \in 1..Len(rows) |->
        <<rows[j].regionCode,
          [code |-> rows[j].regionCode, name |-> rows[j].regionName]>>]))

\* provinces whose region_code is taken from the region's name
provincesRegionName(rows) ==
    MapValues(NewMap([j \in 1..Len(rows) |->
        <<rows[j].provinceCode,
          [code |-> rows[j].provinceCode, name |-> rows[j].provinceName,
           region_code |-> rows[j].regionName]>>]))

\* const provinces (lines 176-185)
provinces(rows) ==
    MapValues(NewMap([j \in 1..Len(rows) |->
        <<rows[j].provinceCode,
          [code |-> rows[j].provinceCode, name |-> rows[j].provinceName,
           region_code |-> rows[j].regionCode]>>]))

\* const lgus (lines 187-196)
lgus(rows) ==
    MapValues(NewMap([j \in 1..Len(rows) |->
        <<rows[j].lguCode,
          [code |-> rows[j].lguCode, name |-> rows[j].lguName,
           province_code |-> rows[j].provinceCode]>>]))

\* barangays deduplicated by code, as the other three levels are
barangaysByCode(rows) ==
    MapValues(NewMap([j \in 1..Len(rows) |->
        <<rows[j].barangayCode,
          [code |-> rows[j].barangayCode, name |-> rows[j].barangayName,
           province_code |-> rows[j].provinceCode, lgu_code |-> rows[j].lguCode]>>]))

\* const barangays (lines 198-203)
barangays(rows) ==
    [j \in 1..Len(rows) |->
        [code |-> rows[j].barangayCode, name |-> rows[j].barangayName,
         province_code |-> rows[j].provinceCode, lgu_code |-> rows[j].lguCode]]

-----------------------------------------------------------------------------
(* uploadData: the store calls (lines 208-238). *)

\* statements with the provinces inserted before the regions
statementsProvincesFirst ==
    <<[op |-> "delete", table |-> "barangays"],
      [op |-> "delete", table |-> "lgus"],
      [op |-> "delete", table |-> "provinces"],
      [op |-> "delete", table |-> "regions"],
      [op |-> "insert", table |-> "provinces"],
      [op |-> "insert", table |-> "regions"],
      [op |-> "insert", table |-> "lgus"],
      [op |-> "insert", table |-> "barangays"]>>

\* the awaited store calls in program order (lines 209-212, 216, 221, 226, 235)
statements ==
    <<[op |-> "delete", table |-> "barangays"],
      [op |-> "delete", table |-> "lgus"],
      [op |-> "delete", table |-> "provinces"],
      [op |-> "delete", table |-> "regions"],
      [op |-> "insert", table |-> "regions"],
      [op |-> "insert", table |-> "provinces"],
      [op |-> "insert", table |-> "lgus"],
      [op |-> "insert", table |-> "barangays"]>>

\* the position after the last statement: uploadData has returned
Done == Len(statements) + 1

\* the `if (x.length > 0)` around each insert (lines 215, 220, 225, 231)
Runs(load, k) == statements[k].op = "delete" \/ Len(load[statements[k].table]) > 0

\* the first statement from k on that is not skipped
RECURSIVE Reach(_, _)
Reach(load, k) ==
    IF k >= Done THEN Done
    ELSE IF Runs(load, k) THEN k
    ELSE Reach(load, k + 1)

\* batch with the last record of each slice left out
batchShort(all, i) == Slice(all, i, i + BATCH_SIZE - 1)

\* barangays.slice(i, i + BATCH_SIZE) (line 234)
batch(all, i) == Slice(all, i, i + BATCH_SIZE)

\* the records handed to the call of statement k, batch offset i
Payload(load, k, i) ==
    IF statements[k].op = "delete" THEN <<>>
    ELSE IF statements[k].table = "barangays" THEN batch(load.barangays, i)
    ELSE load[statements[k].table]

\* the call of statement k is issued and uploadData suspends at its await
Issue(load, k, i) ==
    [load EXCEPT !.pc = k, !.i = i,
                 !.calls = Append(@, [op      |-> statements[k].op,
                                      table   |-> statements[k].table,
                                      offset  |-> i,
                                      records |-> Payload(load, k, i),
                                      done    |-> FALSE,
                                      error   |-> NoError])]

\* where uploadData goes after the call of statement k, batch offset i, has
\* returned without a throw: the next batch (line 233) or the next statement
After(load, k, i) ==
    IF statements[k] = [op |-> "insert", table |-> "barangays"]
       /\ i + BATCH_SIZE < Len(load.barangays)
    THEN <<k, i + BATCH_SIZE>>
    ELSE <<Reach(load, k + 1), 0>>

\* the messages of the errors thrown at lines 217, 222, 227 and 236
InsertError(table, i, message) ==
    CASE table = "regions"   -> "Error inserting regions: " \o message
      [] table = "provinces" -> "Error inserting provinces: " \o message
      [] table = "lgus"      -> "Error inserting LGUs: " \o message
      [] table = "barangays" ->
            "Error inserting barangays batch " \o ToString((i \div BATCH_SIZE) + 1)
            \o ": " \o message

\* Thrown when the result of an insert is dropped as that of a delete is
ThrownNothing(call, result) == NoError

\* what a returned store call makes uploadData throw: only the result of an
\* insert is read (lines 216-217, 221-222, 226-227, 235-236); the result of
\* a delete is dropped (lines 209-212)
Thrown(call, result) ==
    IF call.op = "insert" /\ result # NoError
    THEN InsertError(call.table, call.offset, result)
    ELSE NoError

\* Rejected without the check of the number of rows
RejectedUnlessValid(v, results) == ~v.valid

\* the entry check of uploadData (line 163)
Rejected(v, results) == ~v.valid \/ Len(results.rows) = 0

\* the state of an invocation of uploadData after the extraction (line 203):
\* the rows of its closure, the four collections, its position and batch
\* offset, the store calls it has issued, and the message of the error it caught
NewLoad(rows) ==
    [rows |-> rows, regions |-> regions(rows), provinces |-> provinces(rows),
     lgus |-> lgus(rows), barangays |-> barangays(rows),
     pc |-> 0, i |-> 0, calls |-> <<>>, error |-> NoError]

\* uploadData up to its first await (lines 161-209); the toasts of lines 164
\* and 169 are not modelled, so a rejected call changes nothing
uploadData ==
    IF Rejected(validation, parseResults)
    THEN UNCHANGED vars
    ELSE /\ Len(loads) < MaxLoads
         /\ uploadStatus' = "uploading"
         /\ loads' = Append(loads, Issue(NewLoad(parseResults.rows), 1, 0))
         /\ UNCHANGED <<file, parseResults, validation, parsing, store, failures>>

\* the `disabled` attribute of the upload button (line 378)
disabled == ~validation.valid \/ uploadStatus = "uploading"

\* the upload button is clicked while it is not disabled
UploadClick ==
    /\ ~disabled
    /\ uploadData

\* the messages of the errors the store returns
StoreErrors == {"duplicate key", "timeout"}

\* what a call that returns `result` does to the tables
\* Effect when an insert that returns an error has stored its records
EffectPartialWrite(tables, call, result) ==
    IF call.op = "delete"
    THEN IF result # NoError THEN tables ELSE [tables EXCEPT ![call.table] = <<>>]
    ELSE [tables EXCEPT ![call.table] = @ \o call.records]

Effect(tables, call, result) ==
    IF result # NoError THEN tables
    ELSE IF call.op = "delete" THEN [tables EXCEPT ![call.table] = <<>>]
    ELSE [tables EXCEPT ![call.table] = @ \o call.records]

\* StoreReturn without the setUploadStatus('success') of line 240
StoreReturnSilent(l, result) ==
    LET load == loads[l]
        n == Len(load.calls)
        call == load.calls[n]
        returned == [load EXCEPT !.calls[n].done = TRUE, !.calls[n].error = result]
        thrown == Thrown(call, result)
        next == After(load, load.pc, load.i)
    IN  /\ load.pc # Done
        /\ IF result = NoError
           THEN UNCHANGED failures
           ELSE failures < MaxFailures /\ failures' = failures + 1
        /\ store' = Effect(store, call, result)
        /\ IF thrown # NoError
           THEN /\ loads' = [loads EXCEPT ![l] = [returned EXCEPT !.pc = Done, !.error = thrown]]
                /\ uploadStatus' = "error"
           ELSE IF next[1] = Done
           THEN /\ loads' = [loads EXCEPT ![l] = [returned EXCEPT !.pc = Done]]
                /\ UNCHANGED uploadStatus
           ELSE /\ loads' = [loads EXCEPT ![l] = Issue(returned, next[1], next[2])]
                /\ UNCHANGED uploadStatus
        /\ UNCHANGED <<file, parseResults, validation, parsing>>

\* the outstanding call of load l returns `result`, and uploadData runs on to
\* its next await, to its end (lines 240-241) or to its catch (lines 242-246),
\* where load.error is the message handed to toast.error
StoreReturn(l, result) ==
    LET load == loads[l]
        n == Len(load.calls)
        call == load.calls[n]
        returned == [load EXCEPT !.calls[n].done = TRUE, !.calls[n].error = result]
        thrown == Thrown(call, result)
        next == After(load, load.pc, load.i)
    IN  /\ load.pc # Done
        /\ IF result = NoError
           THEN UNCHANGED failures
           ELSE failures < MaxFailures /\ failures' = failures + 1
        /\ store' = Effect(store, call, result)
        /\ IF thrown # NoError
           THEN /\ loads' = [loads EXCEPT ![l] = [returned EXCEPT !.pc = Done, !.error = thrown]]
                /\ uploadStatus' = "error"
           ELSE IF next[1] = Done
           THEN /\ loads' = [loads EXCEPT ![l] = [returned EXCEPT !.pc = Done]]
                /\ uploadStatus' = "success"
           ELSE /\ loads' = [loads EXCEPT ![l] = Issue(returned, next[1], next[2])]
                /\ UNCHANGED uploadStatus
        /\ UNCHANGED <<file, parseResults, validation, parsing>>

-----------------------------------------------------------------------------
(* The page. *)

\* what the tables hold before the page is used
OldStore ==
    [regions   |-> <<[code |-> "R0", name |-> "Old region"]>>,
     provinces |-> <<[code |-> "P0", name |-> "Old province", region_code |-> "R0"]>>,
     lgus      |-> <<[code |-> "L0", name |-> "Old lgu", province_code |-> "P0"]>>,
     barangays |-> <<[code |-> "B0", name |-> "Old brgy", province_code |-> "P0",
                      lgu_code |-> "L0"]>>]

\* the state of the component after its first render (lines 19-46)
Init ==
    /\ file = NoFile
    /\ parseResults = NoResults
    /\ uploadStatus = "idle"
    /\ validation = NoValidation
    /\ parsing = {}
    /\ loads = <<>>
    /\ store = OldStore
    /\ failures = 0

Next ==
    \/ \E f \in UiFiles : handleFile(f)
    \/ \E f \in parsing : ParseComplete(f)
    \/ \E f \in parsing : ParseError(f)
    \/ ClearFile
    \/ UploadClick
    \/ \E l \in 1..Len(loads) : \E result \in {NoError} \cup StoreErrors :
          StoreReturn(l, result)

Spec == Init /\ [][Next]_vars

\* The pipeline on one file: the page right after the user picked a file of
\* Files, which is then validated and, when the button allows it, loaded once.
PipelineInit ==
    /\ file \in Files
    /\ parseResults = NoResults
    /\ uploadStatus = "validating"
    /\ validation = NoValidation
    /\ parsing = {file}
    /\ loads = <<>>
    /\ store = OldStore
    /\ failures = 0

PipelineNext ==
    \/ \E f \in parsing : ParseComplete(f)
    \/ \E f \in parsing : ParseError(f)
    \/ (loads = <<>> /\ UploadClick)
    \/ \E l \in 1..Len(loads) : \E result \in {NoError} \cup StoreErrors :
          StoreReturn(l, result)

PipelineSpec == PipelineInit /\ [][PipelineNext]_vars

\* the pipeline when every store call that is awaited returns
LiveSpec ==
    /\ PipelineInit
    /\ [][PipelineNext]_vars
    /\ WF_vars(\E l \in 1..Len(loads) : \E result \in {NoError} \cup StoreErrors :
                  StoreReturn(l, result))

-----------------------------------------------------------------------------
(* Properties of the load. *)

Tables == {"regions", "provinces", "lgus", "barangays"}

\* the place of a table in the insertion order
Rank(table) ==
    CASE table = "regions" -> 1 [] table = "provinces" -> 2
      [] table = "lgus" -> 3 [] table = "barangays" -> 4

C2_DeleteFailureAborts ==
    \A l \in 1..Len(loads) :
        LET calls == loads[l].calls
        IN  \A j \in 1..Len(calls) :
                (calls[j].op = "delete" /\ calls[j].done /\ calls[j].error # NoError)
                => /\ j = Len(calls)
                   /\ loads[l].pc = Done
                   /\ loads[l].error # NoError

\* the name of a table in the message of an insert error
Label(table) == IF table = "lgus" THEN "LGUs" ELSE table

\* the number of barangays inserts among the first j calls
BatchNumber(calls, j) ==
    Cardinality({m \in 1..j : calls[m].op = "insert" /\ calls[m].table = "barangays"})

\* the message C3 asks for when call j of `calls` failed
ExpectedInsertError(calls, j) ==
    "Error inserting " \o Label(calls[j].table)
    \o (IF calls[j].table = "barangays"
        THEN " batch " \o ToString(BatchNumber(calls, j))
        ELSE "")
    \o ": " \o calls[j].error

FailedInsert(load) ==
    /\ Len(load.calls) > 0
    /\ load.calls[Len(load.calls)].op = "insert"
    /\ load.calls[Len(load.calls)].done
    /\ load.calls[Len(load.calls)].error # NoError

\* C3: an insert that fails is the last call of its load; the load has then
\* returned with a message that names the collection, for barangays the
\* 1-based batch, and the store's message; the step in which the insert
\* fails sets the status to error.
C3_InsertFailureAborts ==
    /\ [](\A l \in 1..Len(loads) :
            LET calls == loads[l].calls
            IN  \A j \in 1..Len(calls) :
                    (calls[j].op = "insert" /\ calls[j].done /\ calls[j].error # NoError)
                    => /\ j = Len(calls)
                       /\ loads[l].pc = Done
                       /\ loads[l].error = ExpectedInsertError(calls, j))
    /\ [][\A l \in 1..Len(loads) :
            (~FailedInsert(loads[l]) /\ FailedInsert(loads'[l]))
            => uploadStatus' = "error"]_vars

\* the insert of the second barangays batch has failed
C3_Witness ==
    \E l \in 1..Len(loads) :
        /\ FailedInsert(loads[l])
        /\ loads[l].calls[Len(loads[l].calls)].table = "barangays"
        /\ loads[l].calls[Len(loads[l].calls)].offset > 0
        /\ uploadStatus = "error"

\* C4: an invocation of uploadData passes the entry check, and the status
\* becomes uploading, only in a step taken with a valid report, an empty
\* violation list and at least one row; every load has at least one row.
C4_EntryRequiresValidRows ==
    /\ [](\A l \in 1..Len(loads) : Len(loads[l].rows) > 0)
    /\ [][(Len(loads') > Len(loads)
           \/ (uploadStatus' = "uploading" /\ uploadStatus # "uploading"))
          => /\ validation.valid
             /\ validation.errors = <<>>
             /\ Len(parseResults.rows) > 0
             /\ Len(loads') = Len(loads) + 1
             /\ uploadStatus' = "uploading"]_vars

\* the button is enabled under a valid report without rows, and the click
\* is rejected
C4_Witness ==
    /\ parsing = {}
    /\ validation.valid
    /\ Len(parseResults.rows) = 0
    /\ uploadStatus = "idle"
    /\ loads = <<>>

-----------------------------------------------------------------------------
(* Properties of the batches and of the extraction. *)

\* the barangays inserts among the calls of a load, in the order of issue
BarangayInserts(load) ==
    SelectSeq(load.calls, LAMBDA c : c.op = "insert" /\ c.table = "barangays")

RECURSIVE Concat(_)
Concat(ss) == IF Len(ss) = 0 THEN <<>> ELSE ss[1] \o Concat(Tail(ss))

\* the records of the barangays inserts of a load, one after the other
Inserted(load) ==
    Concat([j \in 1..Len(BarangayInserts(load)) |-> BarangayInserts(load)[j].records])

\* a load has returned and every call it issued succeeded
Succeeded(load) ==
    /\ load.pc = Done
    /\ \A j \in 1..Len(load.calls) : load.calls[j].done /\ load.calls[j].error = NoError

\* C5: a load of K barangays in which every store call succeeds issues
\* ceil(K / BATCH_SIZE) barangays inserts; each but the last has BATCH_SIZE
\* records, none is empty, and together they are the K records in order.
C5_BatchCoverage ==
    \A l \in 1..Len(loads) :
        Succeeded(loads[l]) =>
            LET K == Len(loads[l].barangays)
                bs == BarangayInserts(loads[l])
            IN  /\ Len(bs) * BATCH_SIZE >= K
                /\ (Len(bs) - 1) * BATCH_SIZE < K
                /\ \A j \in 1..(Len(bs) - 1) : Len(bs[j].records) = BATCH_SIZE
                /\ \A j \in 1..Len(bs) : Len(bs[j].records) \in 1..BATCH_SIZE
                /\ Inserted(loads[l]) = loads[l].barangays

\* three batches, the last one short
C5_Witness ==
    \E l \in 1..Len(loads) :
        /\ Succeeded(loads[l])
        /\ Len(BarangayInserts(loads[l])) = 3
        /\ Len(BarangayInserts(loads[l])[3].records) < BATCH_SIZE

\* the rows of a load that carry a code at a level
RowsOf(rows, codeField, code) == {j \in 1..Len(rows) : rows[j][codeField] = code}

First(S) == CHOOSE j \in S : \A k \in S : j <= k
Last(S) == CHOOSE j \in S : \A k \in S : j >= k

\* the region, province and lgu records that row j of `rows` stands for
RegionOf(rows, j) == [code |-> rows[j].regionCode, name |-> rows[j].regionName]
ProvinceOf(rows, j) ==
    [code |-> rows[j].provinceCode, name |-> rows[j].provinceName,
     region_code |-> rows[j].regionCode]
LguOf(rows, j) ==
    [code |-> rows[j].lguCode, name |-> rows[j].lguName,
     province_code |-> rows[j].provinceCode]

\* C6 as stated: the record of a code is that of the first row with the code.
C6_FirstOccurrenceWins ==
    \A l \in 1..Len(loads) :
        LET rows == loads[l].rows
        IN  /\ \A r \in 1..Len(loads[l].regions) :
                  loads[l].regions[r] =
                      RegionOf(rows, First(RowsOf(rows, "regionCode", loads[l].regions[r].code)))
            /\ \A r \in 1..Len(loads[l].provinces) :
                  loads[l].provinces[r] =
                      ProvinceOf(rows, First(RowsOf(rows, "provinceCode", loads[l].provinces[r].code)))
            /\ \A r \in 1..Len(loads[l].lgus) :
                  loads[l].lgus[r] =
                      LguOf(rows, First(RowsOf(rows, "lguCode", loads[l].lgus[r].code)))

\* C6 amended: each code of the rows has exactly one record at its level, and
\* that record is the one of the last row with the code.
C6_LastOccurrenceWins ==
    \A l \in 1..Len(loads) :
        LET rows == loads[l].rows
            One(coll, codeField, Of(_, _)) ==
                /\ \A j \in 1..Len(rows) : \E r \in 1..Len(coll) : coll[r].code = rows[j][codeField]
                /\ \A r, q \in 1..Len(coll) : coll[r].code = coll[q].code => r = q
                /\ \A r \in 1..Len(coll) :
                      /\ RowsOf(rows, codeField, coll[r].code) # {}
                      /\ coll[r] = Of(rows, Last(RowsOf(rows, codeField, coll[r].code)))
        IN  /\ One(loads[l].regions, "regionCode", RegionOf)
            /\ One(loads[l].provinces, "provinceCode", ProvinceOf)
            /\ One(loads[l].lgus, "lguCode", LguOf)

\* a load of rows in which a region, a province and an lgu code each come
\* twice, with another name or another parent
C6_Witness ==
    \E l \in 1..Len(loads) :
        LET rows == loads[l].rows
        IN  /\ \E j, k \in 1..Len(rows) :
                  j < k /\ rows[j].regionCode = rows[k].regionCode
                        /\ rows[j].regionName # rows[k].regionName
            /\ \E j, k \in 1..Len(rows) :
                  j < k /\ rows[j].provinceCode = rows[k].provinceCode
                        /\ rows[j].regionCode # rows[k].regionCode
            /\ \E j, k \in 1..Len(rows) :
                  j < k /\ rows[j].lguCode = rows[k].lguCode
                        /\ rows[j].provinceCode # rows[k].provinceCode

-----------------------------------------------------------------------------
(* Properties of the validation report, for the file of PipelineSpec. *)

\* the columns of the header of a file
HeaderSet(f) ==
    IF f.meta.hasFields THEN {f.meta.fields[j] : j \in 1..Len(f.meta.fields)} ELSE {}

\* the `complete` callback has run for the selected file
Parsed == parsing = {} /\ file.failure = NoError

\* the rows that are the first of the input with their barangay code
FirstOfCode(rows) ==
    {j \in 1..Len(rows) : \A k \in 1..(j - 1) : rows[k].barangayCode # rows[j].barangayCode}

\* C8 as stated: stats.barangays is the number of rows, which is the number of
\* barangay records of a load.
C8_StatsCountRows ==
    /\ (Parsed /\ Required \subseteq HeaderSet(file))
          => validation.stats.barangays = Len(file.data)
    /\ \A l \in 1..Len(loads) : validation.stats.barangays = Len(loads[l].barangays)

\* C8 amended: stats.barangays is the number of distinct barangay codes of
\* the rows; it is the number of rows, and of the barangay records of a
\* load, exactly when no two rows share a barangay code.
C8_StatsCountCodes ==
    /\ (Parsed /\ Required \subseteq HeaderSet(file)) =>
          /\ validation.stats.barangays = Cardinality(FirstOfCode(file.data))
          /\ validation.stats.barangays = Len(file.data)
                <=> \A j, k \in 1..Len(file.data) :
                        file.data[j].barangayCode = file.data[k].barangayCode => j = k
    /\ \A l \in 1..Len(loads) :
          /\ validation.stats.barangays = Cardinality(FirstOfCode(loads[l].rows))
          /\ validation.stats.barangays <= Len(loads[l].barangays)

\* a load of three rows with two barangay codes
C8_Witness ==
    \E l \in 1..Len(loads) :
        /\ Len(loads[l].barangays) = 3
        /\ validation.valid
        /\ validation.stats.barangays = 2

\* the names of the columns from the j-th required column on that are not in H
RECURSIVE NamesOutside(_, _)
NamesOutside(H, j) ==
    IF j > Len(requiredColumns) THEN ""
    ELSE IF requiredColumns[j] \in H THEN NamesOutside(H, j + 1)
    ELSE IF \A k \in (j + 1)..Len(requiredColumns) : requiredColumns[k] \in H
         THEN requiredColumns[j]
    ELSE requiredColumns[j] \o ", " \o NamesOutside(H, j + 1)

\* C9: when the header lacks required columns, the report is invalid with one
\* error that names exactly these columns in the required order, the stats
\* are 0, the status is error, and no row has been looked at.
C9_MissingColumns ==
    (Parsed /\ ~(Required \subseteq HeaderSet(file))) =>
        /\ validation.valid = FALSE
        /\ validation.errors =
              <<"Missing required columns: " \o NamesOutside(HeaderSet(file), 1)>>
        /\ validation.stats = [regions |-> 0, provinces |-> 0, lgus |-> 0, barangays |-> 0]
        /\ uploadStatus = "error"
        /\ parseResults.rows = <<>>
        /\ loads = <<>>

\* the header lacks regionName and lguCode and nothing else
C9_Witness ==
    /\ Parsed
    /\ HeaderSet(file) = Required \ {"regionName", "lguCode"}
    /\ Len(file.data) > 0
    /\ validation.errors # <<>>

\* the <<row, column>> pairs of `rows` without a value
Holes(rows) ==
    {p \in (1..Len(rows)) \X (1..Len(requiredColumns)) :
        rows[p[1]][requiredColumns[p[2]]] \in {"", Undefined}}

\* the place of a pair among the pairs, by row and then by column
Place(H, p) ==
    1 + Cardinality({q \in H : q[1] < p[1] \/ (q[1] = p[1] /\ q[2] < p[2])})

\* C10: when the header has the eight columns, the violation list has one
\* entry per <<row, column>> pair without a value, with the row number
\* index + 2 and the column name, by row and then by column, and nothing
\* else; the report is valid exactly when there is no such pair.
C10_RowErrors ==
    (Parsed /\ Required \subseteq HeaderSet(file)) =>
        LET H == Holes(file.data)
        IN  /\ Len(validation.errors) = Cardinality(H)
            /\ \A p \in H :
                  validation.errors[Place(H, p)] =
                      "Row " \o ToString((p[1] - 1) + 2) \o ": Missing value for "
                      \o requiredColumns[p[2]]
            /\ validation.valid <=> H = {}
            /\ parseResults.rows = file.data

\* two rows with violations, one of them with several
C10_Witness ==
    /\ Parsed
    /\ Required \subseteq HeaderSet(file)
    /\ \E p, q, r \in Holes(file.data) : p[1] = q[1] /\ p[2] < q[2] /\ p[1] < r[1]
    /\ ~validation.valid

-----------------------------------------------------------------------------
(* Properties of the replace, of the status and of the serialization. *)

\* C11: when a load has ended with status success, every call it issued
\* completed without error, and each table holds exactly the records the
\* load extracted, so none that was there before.
C11_FullReplaceOnSuccess ==
    \A l \in 1..Len(loads) :
        (loads[l].pc = Done /\ loads[l].error = NoError /\ uploadStatus = "success") =>
            /\ \A j \in 1..Len(loads[l].calls) :
                  loads[l].calls[j].done /\ loads[l].calls[j].error = NoError
            /\ \A t \in Tables : store[t] = loads[l][t]

\* the loads that have not returned
InFlight == {l \in 1..Len(loads) : loads[l].pc # Done}

\* the store calls that have been issued and have not returned
Outstanding ==
    {l \in 1..Len(loads) :
        Len(loads[l].calls) > 0 /\ ~loads[l].calls[Len(loads[l].calls)].done}

\* C12: while a load is in flight the upload button is disabled, at most one
\* load is in flight and at most one store call is outstanding.
C12_Serialized ==
    /\ InFlight # {} => disabled
    /\ Cardinality(InFlight) <= 1
    /\ Cardinality(Outstanding) <= 1

\* a load returns in this step
Returns(l) == loads[l].pc # Done /\ loads'[l].pc = Done

\* C13: the status leaves validating only for error or idle, becomes
\* uploading only under a valid report, becomes success only from uploading,
\* and no load ends, in success or in error, while the status is idle or
\* validating.
C13_StatusEdges ==
    [][/\ (uploadStatus = "validating" /\ uploadStatus' # "validating")
             => uploadStatus' \in {"error", "idle"}
       /\ (uploadStatus # "uploading" /\ uploadStatus' = "uploading")
             => validation.valid
       /\ (uploadStatus # "success" /\ uploadStatus' = "success")
             => uploadStatus = "uploading"
       /\ \A l \in 1..Len(loads) :
             Returns(l) => uploadStatus \notin {"idle", "validating"}]_vars

\* every call of load l has returned without error
AllSucceeded(load) ==
    \A j \in 1..Len(load.calls) : load.calls[j].done /\ load.calls[j].error = NoError

\* C14: when every awaited store call returns, status uploading leads to
\* success or error and a load in flight leads to its return; the step in
\* which a load returns sets success or error, and sets success when every
\* one of its calls succeeded.
C14_LoadTerminates ==
    /\ (uploadStatus = "uploading") ~> (uploadStatus \in {"success", "error"})
    /\ (InFlight # {}) ~> (InFlight = {})
    /\ [][\A l \in 1..Len(loads) :
             Returns(l) =>
                /\ uploadStatus' \in {"success", "error"}
                /\ AllSucceeded(loads'[l]) => uploadStatus' = "success"]_vars

C14_Witness ==
    \E l \in 1..Len(loads) :
        /\ loads[l].pc = Done
        /\ AllSucceeded(loads[l])
        /\ Len(loads[l].barangays) > BATCH_SIZE
        /\ uploadStatus = "success"

\* C15: whenever a load starts, the selected file has been parsed without
\* failure, has every required column, and the rows the load takes and the
\* valid report that allowed it are those of that file.
C15_LoadsLatestFile ==
    [][Len(loads') > Len(loads) =>
          /\ file # NoFile
          /\ file \notin parsing
          /\ file.failure = NoError
          /\ missingColumns(file.meta) = <<>>
          /\ loads'[Len(loads')].rows = file.data
          /\ validation.valid
          /\ validation.errors = validationErrors(file.data)
          /\ validation.stats = stats(file.data)]_vars

\* the four deletes of a load have returned without error
ClearsSucceeded(load) ==
    \A t \in Tables : \E j \in 1..Len(load.calls) :
        /\ load.calls[j].op = "delete"
        /\ load.calls[j].table = t
        /\ load.calls[j].done
        /\ load.calls[j].error = NoError

Codes(records) == {records[j].code : j \in 1..Len(records)}

\* the codes that the inserts into `table` before call j of a load stored
InsertedBefore(load, table, j) ==
    UNION {Codes(load.calls[m].records) :
              m \in {m \in 1..(j - 1) : /\ load.calls[m].op = "insert"
                                        /\ load.calls[m].table = table
                                        /\ load.calls[m].done
                                        /\ load.calls[m].error = NoError}}

\* C17: in every load, each extracted province names an extracted region,
\* each extracted lgu an extracted province, each barangay an extracted lgu
\* and an extracted province; and the parent codes of every record of an
\* insert were stored by an earlier insert of the same load.
C17_ReferentialClosure ==
    \A l \in 1..Len(loads) :
        LET load == loads[l]
        IN  /\ \A j \in 1..Len(load.provinces) :
                  load.provinces[j].region_code \in Codes(load.regions)
            /\ \A j \in 1..Len(load.lgus) :
                  load.lgus[j].province_code \in Codes(load.provinces)
            /\ \A j \in 1..Len(load.barangays) :
                  /\ load.barangays[j].lgu_code \in Codes(load.lgus)
                  /\ load.barangays[j].province_code \in Codes(load.provinces)
            /\ \A j \in 1..Len(load.calls) :
                  LET call == load.calls[j]
                  IN  call.op = "insert" =>
                        \A r \in 1..Len(call.records) :
                            CASE call.table = "regions" -> TRUE
                              [] call.table = "provinces" ->
                                    call.records[r].region_code
                                        \in InsertedBefore(load, "regions", j)
                              [] call.table = "lgus" ->
                                    call.records[r].province_code
                                        \in InsertedBefore(load, "provinces", j)
                              [] call.table = "barangays" ->
                                    /\ call.records[r].lgu_code
                                          \in InsertedBefore(load, "lgus", j)
                                    /\ call.records[r].province_code
                                          \in InsertedBefore(load, "provinces", j)

C17_Witness ==
    \E l \in 1..Len(loads) :
        /\ Cardinality(Codes(loads[l].regions)) >= 2
        /\ Cardinality(Codes(loads[l].provinces)) >= 2
        /\ Cardinality(Codes(loads[l].lgus)) >= 2
        /\ loads[l].calls[Len(loads[l].calls)].table = "barangays"
        /\ loads[l].calls[Len(loads[l].calls)].op = "insert"
        /\ loads[l].calls[Len(loads[l].calls)].done

\* the values of a column of the rows
ColumnValues(rows, column) == {rows[j][column] : j \in 1..Len(rows)}

\* a collection has one record for each of the codes and no other record
OnePerCode(records, codes) ==
    /\ Codes(records) = codes
    /\ Len(records) = Cardinality(codes)

\* the records of the insert calls of a load into a table, one after the other
InsertedInto(load, table) ==
    LET calls == SelectSeq(load.calls, LAMBDA c : c.op = "insert" /\ c.table = table)
    IN  Concat([j \in 1..Len(calls) |-> calls[j].records])

\* C18: in every load, the regions, provinces and lgus collections have one
\* record per distinct code of the rows, an insert into one of these tables
\* carries that collection, and the report's count for the level is the
\* collection's size; a report on one row counts 1 for each level.
C18_OnePerCodeAndStats ==
    /\ \A l \in 1..Len(loads) :
          LET load == loads[l]
          IN  /\ OnePerCode(load.regions, ColumnValues(load.rows, "regionCode"))
              /\ OnePerCode(load.provinces, ColumnValues(load.rows, "provinceCode"))
              /\ OnePerCode(load.lgus, ColumnValues(load.rows, "lguCode"))
              /\ \A t \in {"regions", "provinces", "lgus"} :
                    /\ InsertedInto(load, t) \in {<<>>, load[t]}
                    /\ validation.stats[t] = Len(load[t])
    /\ (Parsed /\ Len(parseResults.rows) = 1 /\ validation.valid) =>
          validation.stats = [regions |-> 1, provinces |-> 1, lgus |-> 1, barangays |-> 1]

C18_Witness ==
    \E l \in 1..Len(loads) :
        /\ Len(loads[l].rows) >= 3
        /\ Len(loads[l].regions) < Len(loads[l].provinces)
        /\ Len(loads[l].provinces) < Len(loads[l].rows)
        /\ InsertedInto(loads[l], "lgus") = loads[l].lgus
        /\ validation.stats.provinces = 2

====
